---- MODULE Spec2Model ----
(***************************************************************************)
(* Comparator-driven sorting (src/sorting.py): merge sort, copying         *)
(* quicksort with a random pivot, in-place quicksort with Lomuto's         *)
(* partition.  Python lists are objects: the model keeps them in a heap    *)
(* (a sequence of lists, a reference is an index into it), so that a       *)
(* function that writes through a reference is seen to do so.  Recursion   *)
(* is an explicit call stack, one action per call, recursive call and      *)
(* return.                                                                 *)
(***************************************************************************)
EXTENDS Integers, Sequences, FiniteSets, TLC

\* Longest input list.
MaxLen == 4

\* Elements: integers whose tens digit is a tag that cmp_last_digit ignores.
Elems == {1, 2, 11, 12}

\* Elements of the runs with arbitrary (possibly invalid) comparators.
SmallElems == {1, 2}

\* Python's None, as a reference and as a return value (references start at 1).
None == 0

\* The deepest nesting of calls the model follows.  A sort of a list of
\* MaxLen elements under a valid comparator nests MaxLen + 1 calls at most,
\* so only a recursion that does not end gets here; it stops with
\* RecursionError, as the interpreter stops it at its own limit.
RecursionLimit == MaxLen + 3

RECURSIVE ListsUpTo(_, _)
ListsUpTo(S, n) ==
    IF n = 0 THEN {<<>>}
    ELSE LET shorter == ListsUpTo(S, n - 1)
         IN  shorter \cup {Append(l, e) : l \in {s \in shorter : Len(s) = n - 1}, e \in S}

Lists == ListsUpTo(Elems, MaxLen)

SmallLists == ListsUpTo(SmallElems, MaxLen)

Range(l) == {l[k] : k \in 1..Len(l)}

\* Number of occurrences of e in l.
Count(l, e) == Cardinality({k \in 1..Len(l) : l[k] = e})

SameMultiset(l1, l2) ==
    /\ Len(l1) = Len(l2)
    /\ \A e \in Range(l1) \cup Range(l2) : Count(l1, e) = Count(l2, e)

---------------------------------------------------------------------------
\* Comparators

cmp_standard(a, b) ==
    IF a < b THEN -1
    ELSE IF b < a THEN 1
    ELSE 0

cmp_reverse(a, b) ==
    IF a < b THEN 1
    ELSE IF b < a THEN -1
    ELSE 0

cmp_last_digit(a, b) == cmp_standard(a % 10, b % 10)

\* A comparator is passed as a value: the table of its results.
Comparators ==
    { [a \in Elems, b \in Elems |-> cmp_standard(a, b)],
      [a \in Elems, b \in Elems |-> cmp_reverse(a, b)],
      [a \in Elems, b \in Elems |-> cmp_last_digit(a, b)] }

\* Every function from pairs to {-1, 0, 1}, valid or not.
AnyComparators == [SmallElems \X SmallElems -> {-1, 0, 1}]

IsSorted(l, c) == \A k \in 1..(Len(l) - 1) : c[l[k], l[k + 1]] <= 0

---------------------------------------------------------------------------
\* Python list primitives

\* l[a:b] for 0 <= a, b <= len(l).
Slice(l, a, b) == SubSeq(l, a + 1, b)

\* Whether l[k] is an element of l: Python counts a negative k from the end.
InRange(l, k) == -Len(l) <= k /\ k < Len(l)

\* The position (from 1) that l[k] names.
Pos(l, k) == IF k >= 0 THEN k + 1 ELSE Len(l) + k + 1

\* [x for x in l if cmp(x, p) is in signs]
Filter(l, p, c, signs) ==
    LET Keep(x) == c[x, p] \in signs
    IN  SelectSeq(l, Keep)

---------------------------------------------------------------------------
\* _merged

\* Line 107: on a tie the element of xs is taken.
TakeFromXsStrict(comp) == comp < 0

TakeFromXs(comp) == comp <= 0

\* The tail appended when ys runs out (line 123).
RestOfXsDropped(xs, current_x) == Slice(xs, current_x + 1, Len(xs))

RestOfXs(xs, current_x) == Slice(xs, current_x, Len(xs))

\* The loop of lines 105-123 on the lists xs and ys (both non-empty), from
\* iteration i with the cursors current_x, current_y and the local list
\* merged_ls.  returned is FALSE when the loop ends without a return
\* statement, and the function then returns None.
RECURSIVE merged_loop(_, _, _, _, _, _, _)
merged_loop(xs, ys, c, i, current_x, current_y, merged_ls) ==
    IF i >= Len(xs) + Len(ys)
    THEN [returned |-> FALSE, list |-> merged_ls]
    ELSE LET comp == c[xs[current_x + 1], ys[current_y + 1]]
         IN  IF TakeFromXs(comp)
             THEN IF current_x < Len(xs) - 1
                  THEN merged_loop(xs, ys, c, i + 1, current_x + 1, current_y,
                                   Append(merged_ls, xs[current_x + 1]))
                  ELSE [returned |-> TRUE,
                        list |-> Append(merged_ls, xs[current_x + 1])
                                   \o Slice(ys, current_y, Len(ys))]
             ELSE IF current_y < Len(ys) - 1
                  THEN merged_loop(xs, ys, c, i + 1, current_x, current_y + 1,
                                   Append(merged_ls, ys[current_y + 1]))
                  ELSE [returned |-> TRUE,
                        list |-> Append(merged_ls, ys[current_y + 1])
                                   \o RestOfXs(xs, current_x)]

\* _merged(xs, ys, cmp) on the heap h, xs and ys references.  The result is
\* ys or xs itself when the other list is empty, a new list otherwise.
\* err is the exception raised, "" when none.
merged(h, xs, ys, c) ==
    IF xs = None \/ ys = None
    THEN [heap |-> h, ret |-> None, err |-> "TypeError"]
    ELSE IF Len(h[xs]) = 0 /\ Len(h[ys]) = 0
    THEN [heap |-> Append(h, <<>>), ret |-> Len(h) + 1, err |-> ""]
    ELSE IF Len(h[xs]) = 0 /\ Len(h[ys]) > 0
    THEN [heap |-> h, ret |-> ys, err |-> ""]
    ELSE IF Len(h[xs]) > 0 /\ Len(h[ys]) = 0
    THEN [heap |-> h, ret |-> xs, err |-> ""]
    ELSE LET r == merged_loop(h[xs], h[ys], c, 0, 0, 0, <<>>)
         IN  IF r.returned
             THEN [heap |-> Append(h, r.list), ret |-> Len(h) + 1, err |-> ""]
             ELSE [heap |-> h, ret |-> None, err |-> ""]

---------------------------------------------------------------------------
\* merge_sorted, as a function of the list's value

RECURSIVE merge_sorted(_, _)
merge_sorted(xs, c) ==
    LET new_xs == xs
    IN  IF Len(new_xs) <= 1
        THEN new_xs
        ELSE LET mid   == Len(new_xs) \div 2
                 left  == merge_sorted(Slice(new_xs, 0, mid), c)
                 right == merge_sorted(Slice(new_xs, mid, Len(new_xs)), c)
             IN  LET r == merged(<<left, right>>, 1, 2, c)
                 IN  r.heap[r.ret]

---------------------------------------------------------------------------
\* partition

\* Line 245: only an element strictly less than the pivot is moved left.
BelowPivotOrEqual(comp) == comp <= 0

BelowPivot(comp) == comp < 0

\* l with the elements that l[i] and l[j] name exchanged (lines 246-248).
Swap(l, i, j) ==
    [l EXCEPT ![Pos(l, i)] = l[Pos(l, j)], ![Pos(l, j)] = l[Pos(l, i)]]

\* The loop of lines 244-249 on the list l, from index j with the boundary i.
\* An index outside the list raises IndexError at the statement that reads it.
RECURSIVE partition_loop(_, _, _, _, _, _)
partition_loop(l, pval, i, j, hi, c) ==
    IF j > hi
    THEN [list |-> l, i |-> i, err |-> ""]
    ELSE IF ~InRange(l, j)
    THEN [list |-> l, i |-> i, err |-> "IndexError"]
    ELSE IF BelowPivot(c[l[Pos(l, j)], pval])
    THEN IF ~InRange(l, i)
         THEN [list |-> l, i |-> i, err |-> "IndexError"]
         ELSE partition_loop(Swap(l, i, j), pval, i + 1, j + 1, hi, c)
    ELSE partition_loop(l, pval, i, j + 1, hi, c)

\* partition(xs, lo, hi, cmp) on the list l: the list afterwards, the index
\* returned and the exception raised ("" when none; the list then is as the
\* statements before the exception left it).
partition(l, lo, hi, c) ==
    IF ~InRange(l, hi)
    THEN [list |-> l, ret |-> None, err |-> "IndexError"]
    ELSE LET pval == l[Pos(l, hi)]
             r    == partition_loop(l, pval, lo, lo, hi, c)
         IN  IF r.err # ""
             THEN [list |-> r.list, ret |-> None, err |-> r.err]
             ELSE IF ~InRange(r.list, r.i)
             THEN [list |-> r.list, ret |-> None, err |-> "IndexError"]
             ELSE LET moved == [r.list EXCEPT ![Pos(r.list, hi)] = r.list[Pos(r.list, r.i)]]
                  IN  [list |-> [moved EXCEPT ![Pos(moved, r.i)] = pval],
                       ret  |-> r.i,
                       err  |-> ""]

---------------------------------------------------------------------------
\* The program's state

VARIABLES
    heap,    \* the lists: heap[r] is the list that reference r names
    stack,   \* the call stack, the running call last
    ret,     \* the value the last call returned
    cmp,     \* the comparator passed to the call
    status,  \* "idle", "running", "done", or the exception that stopped the call
    call,    \* the call the caller made: its function and arguments
    xs0      \* the caller's list as it was before the call

vars == <<heap, stack, ret, cmp, status, call, xs0>>

\* The caller's list is the first object of the heap.
Input == 1

Top == stack[Len(stack)]

Running(fn, pc) ==
    /\ status = "running"
    /\ Top.fn = fn
    /\ Top.pc = pc

\* copy.copy(l): a new list with the same elements.
Copy(h, r) == Append(h, h[r])

\* The running call returns value, leaving the heap h.
Return(h, value) ==
    /\ heap' = h
    /\ stack' = SubSeq(stack, 1, Len(stack) - 1)
    /\ ret' = value
    /\ status' = IF Len(stack) = 1 THEN "done" ELSE status
    /\ UNCHANGED <<cmp, call, xs0>>

\* The running call stops with the exception err, leaving the heap h.
Raise(h, err) ==
    /\ heap' = h
    /\ status' = err
    /\ UNCHANGED <<stack, ret, cmp, call, xs0>>

\* The running call, its frame updated to top, calls the function of frame.
Call(h, top, frame) ==
    IF Len(stack) >= RecursionLimit
    THEN Raise(h, "RecursionError")
    ELSE /\ heap' = h
         /\ stack' = Append([stack EXCEPT ![Len(stack)] = top], frame)
         /\ UNCHANGED <<ret, cmp, status, call, xs0>>

\* The caller calls the function of frame.
Enter(frame, args) ==
    /\ stack' = <<frame>>
    /\ status' = "running"
    /\ call' = args
    /\ UNCHANGED <<heap, ret, cmp, xs0>>

NoArgs(fn) == [fn |-> fn, lo |-> 0, hi |-> 0]

---------------------------------------------------------------------------
\* merge_sorted, call by call

merge_sorted_frame(xs) ==
    [fn |-> "merge_sorted", pc |-> "start", xs |-> xs,
     new_xs |-> None, mid |-> 0, left |-> None]

\* Line 156 with the result written back into the argument as well.
merge_sorted_result_in_place(h, f, right, c) ==
    LET r == merged(h, f.left, right, c)
    IN  IF r.err # "" \/ r.ret = None THEN r
        ELSE [r EXCEPT !.heap[f.xs] = r.heap[r.ret]]

\* Line 156: the result of the call whose frame is f, right just sorted.
merge_sorted_result(h, f, right, c) == merged(h, f.left, right, c)

CallMergeSorted ==
    /\ status = "idle"
    /\ Enter(merge_sorted_frame(Input), NoArgs("merge_sorted"))

\* Lines 146-150.
merge_sorted_base ==
    /\ Running("merge_sorted", "start")
    /\ Len(heap[Top.xs]) <= 1
    /\ Return(Copy(heap, Top.xs), Len(heap) + 1)

\* Lines 146-154.
merge_sorted_left ==
    /\ Running("merge_sorted", "start")
    /\ Len(heap[Top.xs]) > 1
    /\ LET new_xs == Len(heap) + 1
           h1     == Copy(heap, Top.xs)
           mid    == Len(h1[new_xs]) \div 2
           h2     == Append(h1, Slice(h1[new_xs], 0, mid))
       IN  Call(h2,
                [Top EXCEPT !.pc = "left", !.new_xs = new_xs, !.mid = mid],
                merge_sorted_frame(Len(h2)))

\* Lines 154-155.
merge_sorted_right ==
    /\ Running("merge_sorted", "left")
    /\ LET h1 == Append(heap, Slice(heap[Top.new_xs], Top.mid, Len(heap[Top.new_xs])))
       IN  Call(h1,
                [Top EXCEPT !.pc = "right", !.left = ret],
                merge_sorted_frame(Len(h1)))

\* Lines 155-156.
merge_sorted_merge ==
    /\ Running("merge_sorted", "right")
    /\ LET r == merge_sorted_result(heap, Top, ret, cmp)
       IN  IF r.err # "" THEN Raise(r.heap, r.err) ELSE Return(r.heap, r.ret)

---------------------------------------------------------------------------
\* quick_sorted, call by call

quick_sorted_frame(xs) ==
    [fn |-> "quick_sorted", pc |-> "start", xs |-> xs,
     xs_new |-> None, p |-> None, greater |-> None, less |-> None, equal |-> None]

\* Line 195 with the elements equal to the pivot kept too.
GreaterOrEqual(l, p, c) == Filter(l, p, c, {0, 1})

\* Line 195.
Greater(l, p, c) == Filter(l, p, c, {1})

\* Line 196.
Less(l, p, c) == Filter(l, p, c, {-1})

\* Line 197 with the pivot alone.
EqualPivotOnly(l, p, c) == <<p>>

\* Line 197.
Equal(l, p, c) == Filter(l, p, c, {0})

\* Line 202 with the buckets in the order they were built.
ConcatGreaterFirst(less, equal, greater) == greater \o less \o equal

\* Line 202.
Concat(less, equal, greater) == less \o equal \o greater

CallQuickSorted ==
    /\ status = "idle"
    /\ Enter(quick_sorted_frame(Input), NoArgs("quick_sorted"))

\* Lines 186-190.
quick_sorted_base ==
    /\ Running("quick_sorted", "start")
    /\ Len(heap[Top.xs]) <= 1
    /\ Return(Copy(heap, Top.xs), Len(heap) + 1)

\* Lines 186-200: random.choice may return any element of xs_new.
quick_sorted_pivot ==
    /\ Running("quick_sorted", "start")
    /\ Len(heap[Top.xs]) > 1
    /\ \E p \in Range(heap[Top.xs]) :
          LET xs_new == Len(heap) + 1
              l      == heap[Top.xs]
              h1     == Copy(heap, Top.xs) \o
                          <<Greater(l, p, cmp), Less(l, p, cmp), Equal(l, p, cmp)>>
          IN  Call(h1,
                   [Top EXCEPT !.pc = "greater", !.xs_new = xs_new, !.p = p,
                               !.greater = xs_new + 1, !.less = xs_new + 2,
                               !.equal = xs_new + 3],
                   quick_sorted_frame(xs_new + 1))

\* Lines 200-201.
quick_sorted_less ==
    /\ Running("quick_sorted", "greater")
    /\ Call(heap,
            [Top EXCEPT !.pc = "less", !.greater = ret],
            quick_sorted_frame(Top.less))

\* Lines 201-202.
quick_sorted_concat ==
    /\ Running("quick_sorted", "less")
    /\ Return(Append(heap, Concat(heap[ret], heap[Top.equal], heap[Top.greater])),
              Len(heap) + 1)

---------------------------------------------------------------------------
\* quick_sort, call by call

quick_sort_frame(xs) == [fn |-> "quick_sort", pc |-> "start", xs |-> xs]

helper_frame(xs, lo, hi) ==
    [fn |-> "_quick_sort_helper", pc |-> "start", xs |-> xs,
     lo |-> lo, hi |-> hi, split |-> None]

\* Line 237 with the split index kept in the first sub-range.
FirstHiWithSplit(split) == split

\* Line 237: the first sub-range ends before the split index.
FirstHi(split) == split - 1

\* Line 238: the second sub-range starts after the split index.
SecondLo(split) == split + 1

CallQuickSort ==
    /\ status = "idle"
    /\ Enter(quick_sort_frame(Input), NoArgs("quick_sort"))

\* Line 231.
quick_sort_helper ==
    /\ Running("quick_sort", "start")
    /\ Call(heap, [Top EXCEPT !.pc = "helper"],
            helper_frame(Top.xs, 0, Len(heap[Top.xs]) - 1))

\* Line 231: quick_sort returns nothing.
quick_sort_return ==
    /\ Running("quick_sort", "helper")
    /\ Return(heap, None)

\* Line 235, the condition false.
helper_skip ==
    /\ Running("_quick_sort_helper", "start")
    /\ ~(Top.lo < Top.hi)
    /\ Return(heap, None)

\* Lines 235-237.
helper_partition ==
    /\ Running("_quick_sort_helper", "start")
    /\ Top.lo < Top.hi
    /\ LET r  == partition(heap[Top.xs], Top.lo, Top.hi, cmp)
           h1 == [heap EXCEPT ![Top.xs] = r.list]
       IN  IF r.err # ""
           THEN Raise(h1, r.err)
           ELSE Call(h1, [Top EXCEPT !.pc = "first", !.split = r.ret],
                     helper_frame(Top.xs, Top.lo, FirstHi(r.ret)))

\* Line 238.
helper_second ==
    /\ Running("_quick_sort_helper", "first")
    /\ Call(heap, [Top EXCEPT !.pc = "second"],
            helper_frame(Top.xs, SecondLo(Top.split), Top.hi))

\* Line 238, the second call back.
helper_return ==
    /\ Running("_quick_sort_helper", "second")
    /\ Return(heap, None)

---------------------------------------------------------------------------
\* _merged and partition called on their own

\* The elements the comparator is defined on.
ElemsOf(c) == {pair[1] : pair \in DOMAIN c}

\* Indices a caller may pass, valid or not.
Indices == (-MaxLen - 1)..MaxLen

\* _merged(xs, ys, cmp) with the caller's list as xs and any list ys, both
\* sorted as the function assumes.
CallMerged ==
    /\ status = "idle"
    /\ IsSorted(heap[Input], cmp)
    /\ \E ys \in Lists :
          /\ Range(ys) \subseteq ElemsOf(cmp)
          /\ IsSorted(ys, cmp)
          /\ LET r == merged(Append(heap, ys), Input, 2, cmp)
             IN  /\ heap' = r.heap
                 /\ ret' = r.ret
                 /\ status' = IF r.err # "" THEN r.err ELSE "done"
    /\ call' = NoArgs("_merged")
    /\ UNCHANGED <<stack, cmp, xs0>>

\* partition(xs, lo, hi, cmp) with the caller's list and any lo, hi.
CallPartition ==
    /\ status = "idle"
    /\ \E lo \in Indices, hi \in Indices :
          LET r == partition(heap[Input], lo, hi, cmp)
          IN  /\ heap' = [heap EXCEPT ![Input] = r.list]
              /\ ret' = r.ret
              /\ status' = IF r.err # "" THEN r.err ELSE "done"
              /\ call' = [fn |-> "partition", lo |-> lo, hi |-> hi]
    /\ UNCHANGED <<stack, cmp, xs0>>

---------------------------------------------------------------------------
\* Specifications

InitWith(lists, comparators) ==
    /\ xs0 \in lists
    /\ heap = <<xs0>>
    /\ cmp \in comparators
    /\ stack = <<>>
    /\ ret = None
    /\ status = "idle"
    /\ call = NoArgs("")

\* Any list and one of the valid comparators of the program.
Init == InitWith(Lists, Comparators)

\* Any list of the small elements and any comparator at all.
InitAny == InitWith(SmallLists, AnyComparators)

\* The steps of the three sorts.
SortNext ==
    \/ CallMergeSorted
    \/ merge_sorted_base
    \/ merge_sorted_left
    \/ merge_sorted_right
    \/ merge_sorted_merge
    \/ CallQuickSorted
    \/ quick_sorted_base
    \/ quick_sorted_pivot
    \/ quick_sorted_less
    \/ quick_sorted_concat
    \/ CallQuickSort
    \/ quick_sort_helper
    \/ quick_sort_return
    \/ helper_skip
    \/ helper_partition
    \/ helper_second
    \/ helper_return

Next ==
    \/ SortNext
    \/ CallMerged
    \/ CallPartition

Spec == Init /\ [][Next]_vars

\* The caller calls one of the sorts, and the interpreter runs a call until
\* it returns or raises.
FairSpec == Init /\ [][SortNext]_vars /\ WF_vars(SortNext)

SpecAny == InitAny /\ [][Next]_vars

---------------------------------------------------------------------------
\* Properties

\* The call the caller made was of fn and has returned.
Done(fn) == status = "done" /\ call.fn = fn

Sorts == {"merge_sorted", "quick_sorted", "quick_sort"}

\* merge_sorted and quick_sorted return a list; quick_sort returns nothing
\* and the result is the caller's list.
ReturnsList(fn) == Done(fn) /\ ret # None

Result == IF call.fn = "quick_sort" THEN heap[Input] ELSE heap[ret]

\* Two elements that the comparator takes for equal although they differ.
HasDistinctTies(l) ==
    \E i, j \in 1..Len(l) : i < j /\ l[i] # l[j] /\ cmp[l[i], l[j]] = 0

HasDuplicates(l) == \E i, j \in 1..Len(l) : i < j /\ l[i] = l[j]

\* The step-by-step merge_sorted computes the function merge_sorted.
MergeSortedAgrees ==
    Done("merge_sorted") => ret # None /\ heap[ret] = merge_sorted(xs0, cmp)

\* C1: under a valid comparator the result of every sort variant has the
\* same elements, with the same multiplicities, as the list passed in:
\* the list merge_sorted returns, the list quick_sorted returns whatever
\* the pivots, and the caller's list after quick_sort.
C1_PermutationPreserved ==
    /\ Done("merge_sorted") => ret # None /\ SameMultiset(heap[ret], xs0)
    /\ Done("quick_sorted") => ret # None /\ SameMultiset(heap[ret], xs0)
    /\ Done("quick_sort") => SameMultiset(heap[Input], xs0)

C1_Witness ==
    /\ Done("quick_sorted")
    /\ ret # None
    /\ Len(xs0) = 4
    /\ HasDuplicates(xs0)
    /\ heap[ret] # xs0

\* C2: under a valid comparator every adjacent pair of the result of every
\* sort variant satisfies cmp(out[i], out[i+1]) <= 0.
C2_Ordered ==
    \A fn \in Sorts :
        Done(fn) => (fn # "quick_sort" => ret # None) /\ IsSorted(Result, cmp)

C2_Witness ==
    /\ Done("quick_sort")
    /\ cmp[1, 2] = 1
    /\ Len(xs0) = 4
    /\ ~IsSorted(xs0, cmp)
    /\ IsSorted(heap[Input], cmp)

\* C3: merge_sorted and quick_sorted leave their argument as it was: the
\* caller's list is the original list in every state of the call, and no
\* step of either function, at any depth of the recursion and for any
\* pivot, changes a list that existed before the step.
C3_InputUnchanged ==
    /\ [](call.fn \in {"merge_sorted", "quick_sorted"} => heap[Input] = xs0)
    /\ [][call.fn \in {"merge_sorted", "quick_sorted"} =>
            /\ Len(heap') >= Len(heap)
            /\ \A r \in 1..Len(heap) : heap'[r] = heap[r]]_vars

C3_Witness ==
    /\ Done("merge_sorted")
    /\ ret # None
    /\ Len(xs0) = 4
    /\ heap[ret] # xs0
    /\ heap[Input] = xs0

\* C4: merge_sorted is stable: the elements that the comparator takes for
\* equal to a given element appear in the result in the order they have
\* in the input, and an input that is sorted already is returned as it is.
C4_MergeSortedStable ==
    Done("merge_sorted") =>
        /\ ret # None
        /\ \A e \in ElemsOf(cmp) :
              Filter(heap[ret], e, cmp, {0}) = Filter(xs0, e, cmp, {0})
        /\ IsSorted(xs0, cmp) => heap[ret] = xs0

C4_Witness ==
    /\ Done("merge_sorted")
    /\ ret # None
    /\ HasDistinctTies(xs0)
    /\ ~IsSorted(xs0, cmp)
    /\ xs0[1] = 12 /\ xs0[Len(xs0)] = 2

\* C5: for xs and ys sorted, _merged returns a list of length
\* len(xs) + len(ys) holding the elements of both with their
\* multiplicities, sorted, in which an element that only xs holds comes
\* before every element that only ys holds and that compares equal to it.
C5_MergedContract ==
    call.fn = "_merged" =>
        /\ status = "done"
        /\ ret # None
        /\ LET xs  == heap[Input]
               ys  == heap[2]
               out == heap[ret]
           IN  /\ Len(out) = Len(xs) + Len(ys)
               /\ SameMultiset(out, xs \o ys)
               /\ IsSorted(out, cmp)
               /\ \A i, j \in 1..Len(out) :
                     ( /\ out[i] \in Range(xs) \ Range(ys)
                       /\ out[j] \in Range(ys) \ Range(xs)
                       /\ cmp[out[i], out[j]] = 0 ) => i < j

C5_Witness ==
    /\ Done("_merged")
    /\ ret # None
    /\ heap[Input] = <<1, 2>>
    /\ heap[2] = <<11, 12>>
    /\ cmp[1, 11] = 0
    /\ heap[ret] = <<1, 11, 2, 12>>

\* The range [lo, hi] is one partition's precondition allows.
ValidRange(l, lo, hi) == 0 <= lo /\ lo <= hi /\ hi < Len(l)

\* C7: for 0 <= lo <= hi < len(xs) and a valid comparator, partition
\* returns i in [lo, hi]; afterwards xs[i] is the original xs[hi], the
\* elements of [lo, i-1] compare less than it, those of [i+1, hi] compare
\* greater or equal, [lo, hi] holds its original elements, and the rest of
\* the list is unchanged.
C7_PartitionContract ==
    (call.fn = "partition" /\ ValidRange(xs0, call.lo, call.hi)) =>
        /\ status = "done"
        /\ LET xs   == heap[Input]
               i    == ret
               pval == xs0[call.hi + 1]
           IN  /\ call.lo <= i /\ i <= call.hi
               /\ xs[i + 1] = pval
               /\ \A k \in call.lo..(i - 1) : cmp[xs[k + 1], pval] < 0
               /\ \A k \in (i + 1)..call.hi : cmp[xs[k + 1], pval] >= 0
               /\ SameMultiset(Slice(xs, call.lo, call.hi + 1),
                               Slice(xs0, call.lo, call.hi + 1))
               /\ Len(xs) = Len(xs0)
               /\ \A k \in 0..(Len(xs0) - 1) :
                     (k < call.lo \/ k > call.hi) => xs[k + 1] = xs0[k + 1]

C7_Witness ==
    /\ Done("partition")
    /\ call.lo = 1 /\ call.hi = 3
    /\ ret = 2
    /\ Len(xs0) = 4
    /\ heap[Input] # xs0

\* C8: partition called with lo or hi outside [0, len(xs) - 1], or with
\* lo > hi + 1, raises and leaves xs as it was.
C8_InvalidRangeFailsFast ==
    ( /\ call.fn = "partition"
      /\ \/ call.lo < 0 \/ call.lo > Len(xs0) - 1
         \/ call.hi < 0 \/ call.hi > Len(xs0) - 1
         \/ call.lo > call.hi + 1 ) =>
        /\ status # "done"
        /\ heap[Input] = xs0

\* C6: whatever the comparator returns, no sort loses or duplicates an
\* element: the list merge_sorted or quick_sorted returns, and the caller's
\* list in every state of quick_sort (when it stops with an exception
\* too), has the elements of the original list.
C6_NoLossAnyComparator ==
    /\ ReturnsList("merge_sorted") => SameMultiset(heap[ret], xs0)
    /\ ReturnsList("quick_sorted") => SameMultiset(heap[ret], xs0)
    /\ call.fn = "quick_sort" => SameMultiset(heap[Input], xs0)

\* The size of what the frame f sorts: a list, or an index range.
Size(f) ==
    IF f.fn = "_quick_sort_helper" THEN f.hi - f.lo + 1 ELSE Len(heap[f.xs])

\* Every recursive call in progress is on less than its caller's.
Decreasing ==
    \A k \in 2..Len(stack) :
        stack[k].fn = stack[k - 1].fn => Size(stack[k]) < Size(stack[k - 1])

C10_QuickSortedIsMergeSorted ==
    Done("quick_sorted") => ret # None /\ heap[ret] = merge_sorted(xs0, cmp)

C10_Witness ==
    /\ Done("quick_sorted")
    /\ ret # None
    /\ HasDistinctTies(xs0)
    /\ ~IsSorted(xs0, cmp)
    /\ Len(xs0) = 4
    /\ heap[ret] = merge_sorted(xs0, cmp)

====
